---- MODULE Spec2Model ----
(***************************************************************************)
(* The countdown engine of egui-clock (src/src/main.rs).                   *)
(*                                                                         *)
(* Two threads share Clock.countdown and Clock.status, each behind its own *)
(* Mutex that is only ever taken with try_lock:                            *)
(*   - the ticker thread spawned by Clock::init (lines 138-159);           *)
(*   - the GUI thread running eframe::App::update (lines 224-314), which   *)
(*     calls check_status, voice_broadcast, the buttons, the text edits,   *)
(*     the display and the repaint request, in that order, every frame.    *)
(* Every try_lock and every release of a guard is one step, so that the    *)
(* other thread can run (and fail its own try_lock) in between.            *)
(* countdown is an integer: `*min -= 1` on 0 would show as -1.             *)
(***************************************************************************)
EXTENDS Integers, Sequences, FiniteSets

\* ---------------------------------------------------------------- bounds
\* Largest number of seconds the settings hold in the model.
MaxSecs == 3
\* Largest countdown value the cue-dispatch specification starts from.
MaxRemaining == 91
\* Largest number of ticker iterations counted in the tick-counting specification.
MaxTicks == 6

\* Values run_secs and rest_secs take (config.json or the text edits).
SecsChoices == {0, 1, MaxSecs}

\* ---------------------------------------------------------------- state
VARIABLES
    countdown,       \* Clock.countdown: *min
    status,          \* Clock.status
    countdown_lock,  \* who holds the Mutex of countdown: "none", "ticker", "host"
    status_lock,     \* who holds the Mutex of status
    setting,         \* Clock.setting: run_secs, rest_secs, auto_next
    tpc,             \* position of the ticker thread in its loop
    hpc,             \* position of the GUI thread in update()
    ret,             \* where the running start() returns to
    sound_handle,    \* Audio.sound_handle: the cue last started and its playback state
    cue_requests,    \* the start_play calls of the latest voice_broadcast invocation
    ticks            \* ticker iterations completed (counted by SpecTicks only)

vars == <<countdown, status, countdown_lock, status_lock, setting, tpc, hpc, ret,
          sound_handle, cue_requests, ticks>>

StatusValues == {"Running", "Stop", "Rest", "RestRunning", "Wait", "RestWait"}

Settings == [run_secs : SecsChoices, rest_secs : SecsChoices, auto_next : BOOLEAN]

NoHandle == [cue |-> "none", state |-> "none"]

CueNames == {"90", "60", "30", "10", "05", "rest", "next"}

TickerPcs == {"loop", "t_min", "t_both", "t_rel", "sleep"}

CheckStatusPcs == {"check_status", "cs_status", "cs_min", "cs_set", "cs_auto"}

StartPcs == {"start", "start_min", "start_try_status", "start_status"}

VoicePcs == {"voice_broadcast", "vb_status", "vb_both", "vb_rel"}

UiPcs == {"ui_auto", "btn_start", "btn_pause", "pause_locked", "edit",
          "display", "display_min", "display_both", "display_rel",
          "repaint", "repaint_locked"}

HostPcs == CheckStatusPcs \cup StartPcs \cup VoicePcs \cup UiPcs

\* Clock::default() then Clock::init(): countdown 0, status Wait, both mutexes
\* free, the setting as config.json or Setting::new() gives it, no sound handle;
\* the ticker at the top of its loop and the GUI thread at the top of update().
Init ==
    /\ countdown = 0
    /\ status = "Wait"
    /\ countdown_lock = "none"
    /\ status_lock = "none"
    /\ setting \in Settings
    /\ tpc = "loop"
    /\ hpc = "check_status"
    /\ ret = "voice_broadcast"
    /\ sound_handle = NoHandle
    /\ cue_requests = <<>>
    /\ ticks = 0

\* ---------------------------------------------------------------- ticker
\* Mutant: a paused phase counts down too.
TickerCountsPaused(st) == st = "Running" \/ st = "RestRunning" \/ st = "Stop"

\* Mutant: the status is not looked at before the decrement.
TickerCountsAlways(st) == TRUE

\* line 142: the ticker decrements only in an active phase.
TickerCounts(st) == st = "Running" \/ st = "RestRunning"

\* Mutant: the catch-all spares a paused clock.
TickerExpireKeepsStop(st) ==
    IF st = "Running" THEN "Rest"
    ELSE IF st = "RestRunning" THEN "RestWait"
    ELSE IF st = "Stop" THEN "Stop"
    ELSE "Wait"

\* Mutant: an expired rest phase falls into the catch-all.
TickerExpireNoRestWait(st) == IF st = "Running" THEN "Rest" ELSE "Wait"

\* lines 148-154: the status the ticker writes when it sees *min == 0.
TickerExpire(st) ==
    IF st = "Running" THEN "Rest"
    ELSE IF st = "RestRunning" THEN "RestWait"
    ELSE "Wait"

\* Mutant: the phase expires one second early.
TickerPositiveOffByOne(min) == min > 1

\* Mutant: the decrement branch is taken on 0 too.
TickerPositiveOrZero(min) == min >= 0

\* line 140: the branch the ticker takes on the value it holds.
TickerPositive(min) == min > 0

\* line 139: try_lock on countdown; on failure the iteration goes to sleep.
TickTryMin ==
    /\ tpc = "loop"
    /\ IF countdown_lock = "none"
       THEN countdown_lock' = "ticker" /\ tpc' = "t_min"
       ELSE countdown_lock' = countdown_lock /\ tpc' = "sleep"
    /\ UNCHANGED <<ticks, countdown, status, status_lock, setting, hpc, ret,
                   sound_handle, cue_requests>>

\* Mutant: an iteration that misses the status lock decrements all the same.
TickTryStatusCountsAnyway ==
    /\ tpc = "t_min"
    /\ IF status_lock = "none"
       THEN status_lock' = "ticker" /\ tpc' = "t_both" /\ countdown' = countdown
       ELSE /\ status_lock' = status_lock /\ tpc' = "t_rel"
            /\ countdown' = IF countdown > 0 THEN countdown - 1 ELSE countdown
    /\ UNCHANGED <<ticks, status, countdown_lock, setting, hpc, ret,
                   sound_handle, cue_requests>>

\* Mutant: the ticker waits for status (lock) instead of trying it (try_lock).
TickTryStatusBlocking ==
    /\ tpc = "t_min"
    /\ status_lock = "none"
    /\ status_lock' = "ticker"
    /\ tpc' = "t_both"
    /\ UNCHANGED <<ticks, countdown, status, countdown_lock, setting, hpc, ret,
                   sound_handle, cue_requests>>

\* lines 141 / 147: try_lock on status while holding countdown.
TickTryStatus ==
    /\ tpc = "t_min"
    /\ IF status_lock = "none"
       THEN status_lock' = "ticker" /\ tpc' = "t_both"
       ELSE status_lock' = status_lock /\ tpc' = "t_rel"
    /\ UNCHANGED <<ticks, countdown, status, countdown_lock, setting, hpc, ret,
                   sound_handle, cue_requests>>

\* lines 140-156 with both guards held: decrement or expire, then drop the
\* status guard.
TickBody ==
    /\ tpc = "t_both"
    /\ IF TickerPositive(countdown)
       THEN /\ countdown' = IF TickerCounts(status) THEN countdown - 1 ELSE countdown
            /\ status' = status
       ELSE /\ countdown' = countdown
            /\ status' = TickerExpire(status)
    /\ status_lock' = "none"
    /\ tpc' = "t_rel"
    /\ UNCHANGED <<ticks, countdown_lock, setting, hpc, ret, sound_handle, cue_requests>>

\* line 157: the countdown guard is dropped; line 158: the thread sleeps.
\* (The specification says what the iteration counter does.)
TickRelease ==
    /\ tpc = "t_rel"
    /\ countdown_lock' = "none"
    /\ tpc' = "sleep"
    /\ UNCHANGED <<countdown, status, status_lock, setting, hpc, ret,
                   sound_handle, cue_requests>>

\* line 158: the sleep ends and the loop starts over.
TickWake ==
    /\ tpc = "sleep"
    /\ tpc' = "loop"
    /\ UNCHANGED <<ticks, countdown, status, countdown_lock, status_lock, setting, hpc, ret,
                   sound_handle, cue_requests>>

\* ---------------------------------------------------------------- start()
\* line 163: try_lock on countdown.
StartTryMin ==
    /\ hpc = "start"
    /\ IF countdown_lock = "none"
       THEN countdown_lock' = "host" /\ hpc' = "start_min"
       ELSE countdown_lock' = countdown_lock /\ hpc' = "start_try_status"
    /\ UNCHANGED <<ticks, countdown, status, status_lock, setting, tpc, ret,
                   sound_handle, cue_requests>>

\* Mutant: start() resets to the rest length.
StartValueRest(s) == s.rest_secs

\* line 164: the value start() writes into countdown.
StartValue(s) == s.run_secs

\* Mutant: start() keeps the countdown guard while it goes on to status.
StartSetMinKeepsGuard ==
    /\ hpc = "start_min"
    /\ countdown' = StartValue(setting)
    /\ hpc' = "start_try_status"
    /\ UNCHANGED <<ticks, status, countdown_lock, status_lock, setting, tpc, ret,
                   sound_handle, cue_requests>>

\* lines 164-165: *min = run_secs, then the guard is dropped.
StartSetMin ==
    /\ hpc = "start_min"
    /\ countdown' = StartValue(setting)
    /\ countdown_lock' = "none"
    /\ hpc' = "start_try_status"
    /\ UNCHANGED <<ticks, status, status_lock, setting, tpc, ret, sound_handle, cue_requests>>

\* line 166: try_lock on status; on failure start() returns.
StartTryStatus ==
    /\ hpc = "start_try_status"
    /\ IF status_lock = "none"
       THEN status_lock' = "host" /\ hpc' = "start_status"
       ELSE status_lock' = status_lock /\ hpc' = ret
    /\ UNCHANGED <<ticks, countdown, status, countdown_lock, setting, tpc, ret,
                   sound_handle, cue_requests>>

\* lines 167-169: *status = Running, the guard is dropped, start() returns.
StartSetStatus ==
    /\ hpc = "start_status"
    /\ status' = "Running"
    /\ status_lock' = "none"
    /\ hpc' = ret
    /\ UNCHANGED <<ticks, countdown, countdown_lock, setting, tpc, ret, sound_handle,
                   cue_requests>>

Start == StartTryMin \/ StartSetMin \/ StartTryStatus \/ StartSetStatus

\* ---------------------------------------------------------------- check_status()
\* line 173: try_lock on status; on failure auto_next stays false (line 172)
\* and check_status returns to update(), which calls voice_broadcast next.
CsTryStatus ==
    /\ hpc = "check_status"
    /\ IF status_lock = "none"
       THEN status_lock' = "host" /\ hpc' = "cs_status"
       ELSE status_lock' = status_lock /\ hpc' = "voice_broadcast"
    /\ UNCHANGED <<ticks, countdown, status, countdown_lock, setting, tpc, ret,
                   sound_handle, cue_requests>>

\* Mutant: check_status restarts the rest phase from RestWait too.
CsStartsRestOrRestWait(st) == st = "Rest" \/ st = "RestWait"

\* line 174: the status on which check_status starts the rest phase.
CsStartsRest(st) == st = "Rest"

\* Mutant: check_status goes on to its writes without taking the countdown lock.
CsTryMinNoLock ==
    /\ hpc = "cs_status"
    /\ hpc' = (IF CsStartsRest(status) THEN "cs_min" ELSE "cs_auto")
    /\ UNCHANGED <<ticks, countdown, status, countdown_lock, status_lock, setting, tpc,
                   ret, sound_handle, cue_requests>>

\* lines 174-175: if status is Rest, try_lock on countdown.
CsTryMin ==
    /\ hpc = "cs_status"
    /\ IF CsStartsRest(status) /\ countdown_lock = "none"
       THEN countdown_lock' = "host" /\ hpc' = "cs_min"
       ELSE countdown_lock' = countdown_lock /\ hpc' = "cs_auto"
    /\ UNCHANGED <<ticks, countdown, status, status_lock, setting, tpc, ret,
                   sound_handle, cue_requests>>

\* Mutant: the rest phase gets the work length.
RestValueRun(s) == s.run_secs

\* line 176: the value check_status writes into countdown.
RestValue(s) == s.rest_secs

\* line 176: *min = rest_secs, both guards held.
CsSetMin ==
    /\ hpc = "cs_min"
    /\ countdown' = RestValue(setting)
    /\ hpc' = "cs_set"
    /\ UNCHANGED <<ticks, status, countdown_lock, status_lock, setting, tpc, ret,
                   sound_handle, cue_requests>>

\* lines 177-178: *status = RestRunning, then the countdown guard is dropped.
CsSetStatus ==
    /\ hpc = "cs_set"
    /\ status' = "RestRunning"
    /\ countdown_lock' = "none"
    /\ hpc' = "cs_auto"
    /\ UNCHANGED <<ticks, countdown, status_lock, setting, tpc, ret, sound_handle,
                   cue_requests>>

\* Mutant: the next phase is started from Rest instead of RestWait.
AutoNextFromRest(st, s) == st = "Rest" /\ s.auto_next

\* Mutant: the auto_next setting is not consulted.
AutoNextIgnoresSetting(st, s) == st = "RestWait"

\* line 181: the local auto_next.
AutoNext(st, s) == st = "RestWait" /\ s.auto_next

\* lines 181-185: auto_next is computed, the status guard is dropped, and
\* start() is called when auto_next is true.
CsAuto ==
    /\ hpc = "cs_auto"
    /\ status_lock' = "none"
    /\ IF AutoNext(status, setting)
       THEN hpc' = "start" /\ ret' = "voice_broadcast"
       ELSE hpc' = "voice_broadcast" /\ ret' = ret
    /\ UNCHANGED <<ticks, countdown, status, countdown_lock, setting, tpc, sound_handle,
                   cue_requests>>

CheckStatus == CsTryStatus \/ CsTryMin \/ CsSetMin \/ CsSetStatus \/ CsAuto

\* ---------------------------------------------------------------- audio
\* Mutant: a request restarts the cue even while the stored handle is Playing.
StartPlayRestarts(handle, cue, load_ok) ==
    IF load_ok THEN [cue |-> cue, state |-> "Playing"] ELSE handle

\* lines 412-424, Audio::start_play: nothing happens while the stored handle is
\* Playing, nor when the file does not load; otherwise the new sound plays and
\* its handle is stored.
StartPlay(handle, cue, load_ok) ==
    IF handle.state = "Playing" THEN handle
    ELSE IF load_ok THEN [cue |-> cue, state |-> "Playing"]
    ELSE handle

\* kira's audio thread: the sound behind the stored handle comes to its end.
PlaybackEnds ==
    /\ sound_handle.state = "Playing"
    /\ sound_handle' = [sound_handle EXCEPT !.state = "Stopped"]
    /\ UNCHANGED <<ticks, countdown, status, countdown_lock, status_lock, setting, tpc, hpc,
                   ret, cue_requests>>

\* ---------------------------------------------------------------- voice_broadcast()
\* lines 192-212: the match on *sec under status == Running.
RunningCue(sec) ==
    CASE sec = 90 -> <<"90">>
      [] sec = 60 -> <<"60">>
      [] sec = 30 -> <<"30">>
      [] sec = 10 -> <<"10">>
      [] sec = 5 -> <<"05">>
      [] sec = 0 -> <<"rest">>
      [] OTHER -> <<>>

\* Mutant: the threshold cues are requested whatever the status.
VoiceCuesAnyStatus(st, sec) ==
    RunningCue(sec) \o (IF st = "RestRunning" /\ sec = 0 THEN <<"next">> ELSE <<>>)

\* lines 191-217: the start_play calls of one invocation, in order.
VoiceCues(st, sec) ==
    (IF st = "Running" THEN RunningCue(sec) ELSE <<>>)
    \o (IF st = "RestRunning" /\ sec = 0 THEN <<"next">> ELSE <<>>)

\* start_play applied to each cue of a sequence in turn; loads[i] tells whether
\* the file of the i-th call loads.
RECURSIVE PlayAll(_, _, _)
PlayAll(handle, cues, loads) ==
    IF cues = <<>> THEN handle
    ELSE PlayAll(StartPlay(handle, Head(cues), Head(loads)), Tail(cues), Tail(loads))

\* line 189: try_lock on status; on failure voice_broadcast returns.
VbTryStatus ==
    /\ hpc = "voice_broadcast"
    /\ cue_requests' = <<>>
    /\ IF status_lock = "none"
       THEN status_lock' = "host" /\ hpc' = "vb_status"
       ELSE status_lock' = status_lock /\ hpc' = "ui_auto"
    /\ UNCHANGED <<ticks, countdown, status, countdown_lock, setting, tpc, ret, sound_handle>>

\* line 190: try_lock on countdown while holding status; on failure the body
\* is skipped and the status guard stays held until line 219.
VbTryMin ==
    /\ hpc = "vb_status"
    /\ IF countdown_lock = "none"
       THEN countdown_lock' = "host" /\ hpc' = "vb_both"
       ELSE countdown_lock' = countdown_lock /\ hpc' = "vb_rel"
    /\ UNCHANGED <<ticks, countdown, status, status_lock, setting, tpc, ret, sound_handle,
                   cue_requests>>

\* lines 191-218: the cues are requested, then the countdown guard is dropped.
VbBody ==
    /\ hpc = "vb_both"
    /\ cue_requests' = VoiceCues(status, countdown)
    /\ \E ok1 \in BOOLEAN, ok2 \in BOOLEAN :
          sound_handle' = PlayAll(sound_handle, cue_requests', <<ok1, ok2>>)
    /\ countdown_lock' = "none"
    /\ hpc' = "vb_rel"
    /\ UNCHANGED <<ticks, countdown, status, status_lock, setting, tpc, ret>>

\* line 219: the status guard is dropped.
VbRelease ==
    /\ hpc = "vb_rel"
    /\ status_lock' = "none"
    /\ hpc' = "ui_auto"
    /\ UNCHANGED <<ticks, countdown, status, countdown_lock, setting, tpc, ret, sound_handle,
                   cue_requests>>

VoiceBroadcast == VbTryStatus \/ VbTryMin \/ VbBody \/ VbRelease

\* ---------------------------------------------------------------- update(): the panel
\* lines 232-238: the auto_next checkbox, changed by the user or not.
UiAuto ==
    /\ hpc = "ui_auto"
    /\ \E a \in BOOLEAN : setting' = [setting EXCEPT !.auto_next = a]
    /\ hpc' = "btn_start"
    /\ UNCHANGED <<ticks, countdown, status, countdown_lock, status_lock, tpc, ret,
                   sound_handle, cue_requests>>

\* lines 240-242: the start button, clicked or not.
BtnStart ==
    /\ hpc = "btn_start"
    /\ \E clicked \in BOOLEAN :
          IF clicked THEN hpc' = "start" /\ ret' = "btn_pause"
          ELSE hpc' = "btn_pause" /\ ret' = ret
    /\ UNCHANGED <<ticks, countdown, status, countdown_lock, status_lock, setting, tpc,
                   sound_handle, cue_requests>>

\* line 244: try_lock on status for the pause / resume button.
BtnPauseTry ==
    /\ hpc = "btn_pause"
    /\ IF status_lock = "none"
       THEN status_lock' = "host" /\ hpc' = "pause_locked"
       ELSE status_lock' = status_lock /\ hpc' = "edit"
    /\ UNCHANGED <<ticks, countdown, status, countdown_lock, setting, tpc, ret, sound_handle,
                   cue_requests>>

\* Mutant: a click pauses whatever the status is, unless it resumes.
PauseResumeUnchecked(st, clicked) ==
    IF clicked THEN (IF st = "Stop" THEN "Running" ELSE "Stop") ELSE st

\* lines 245-253: the button shown for the status held, and what a click writes.
PauseResume(st, clicked) ==
    IF st = "Running" THEN (IF clicked THEN "Stop" ELSE st)
    ELSE IF st = "Stop" THEN (IF clicked THEN "Running" ELSE st)
    ELSE st

\* lines 245-254: pause or resume under the status guard, then the guard is dropped.
BtnPause ==
    /\ hpc = "pause_locked"
    /\ \E clicked \in BOOLEAN : status' = PauseResume(status, clicked)
    /\ status_lock' = "none"
    /\ hpc' = "edit"
    /\ UNCHANGED <<ticks, countdown, countdown_lock, setting, tpc, ret, sound_handle,
                   cue_requests>>

\* lines 258-290: the two text edits; a parsed number replaces the setting.
Edit ==
    /\ hpc = "edit"
    /\ \E r \in SecsChoices, q \in SecsChoices :
          setting' = [setting EXCEPT !.run_secs = r, !.rest_secs = q]
    /\ hpc' = "display"
    /\ UNCHANGED <<ticks, countdown, status, countdown_lock, status_lock, tpc, ret,
                   sound_handle, cue_requests>>

\* line 294: try_lock on countdown for the big display.
DisplayTryMin ==
    /\ hpc = "display"
    /\ IF countdown_lock = "none"
       THEN countdown_lock' = "host" /\ hpc' = "display_min"
       ELSE countdown_lock' = countdown_lock /\ hpc' = "repaint"
    /\ UNCHANGED <<ticks, countdown, status, status_lock, setting, tpc, ret, sound_handle,
                   cue_requests>>

\* line 296: try_lock on status while holding countdown.
DisplayTryStatus ==
    /\ hpc = "display_min"
    /\ IF status_lock = "none"
       THEN status_lock' = "host" /\ hpc' = "display_both"
       ELSE status_lock' = status_lock /\ hpc' = "display_rel"
    /\ UNCHANGED <<ticks, countdown, status, countdown_lock, setting, tpc, ret, sound_handle,
                   cue_requests>>

\* lines 297-302: the colour is chosen, the status guard is dropped.
DisplayColour ==
    /\ hpc = "display_both"
    /\ status_lock' = "none"
    /\ hpc' = "display_rel"
    /\ UNCHANGED <<ticks, countdown, status, countdown_lock, setting, tpc, ret, sound_handle,
                   cue_requests>>

\* lines 303-304: the label is drawn, the countdown guard is dropped.
DisplayRelease ==
    /\ hpc = "display_rel"
    /\ countdown_lock' = "none"
    /\ hpc' = "repaint"
    /\ UNCHANGED <<ticks, countdown, status, status_lock, setting, tpc, ret, sound_handle,
                   cue_requests>>

\* line 309: try_lock on status for the repaint request; on failure the frame ends.
RepaintTry ==
    /\ hpc = "repaint"
    /\ IF status_lock = "none"
       THEN status_lock' = "host" /\ hpc' = "repaint_locked"
       ELSE status_lock' = status_lock /\ hpc' = "check_status"
    /\ UNCHANGED <<ticks, countdown, status, countdown_lock, setting, tpc, ret, sound_handle,
                   cue_requests>>

\* lines 310-314: the repaint is requested, the guard is dropped, the frame ends;
\* the next call of update() starts at check_status.
RepaintRelease ==
    /\ hpc = "repaint_locked"
    /\ status_lock' = "none"
    /\ hpc' = "check_status"
    /\ UNCHANGED <<ticks, countdown, status, countdown_lock, setting, tpc, ret, sound_handle,
                   cue_requests>>

Panel ==
    \/ UiAuto \/ BtnStart \/ BtnPauseTry \/ BtnPause \/ Edit
    \/ DisplayTryMin \/ DisplayTryStatus \/ DisplayColour \/ DisplayRelease
    \/ RepaintTry \/ RepaintRelease

\* One step of the GUI thread inside update().
Host == CheckStatus \/ Start \/ VoiceBroadcast \/ Panel

\* ---------------------------------------------------------------- specifications
Next ==
    \/ TickTryMin \/ TickTryStatus \/ TickBody \/ TickWake
    \/ TickRelease /\ UNCHANGED ticks
    \/ Host
    \/ PlaybackEnds

Spec == Init /\ [][Next]_vars

TypeOK ==
    /\ countdown \in Int
    /\ status \in StatusValues
    /\ countdown_lock \in {"none", "ticker", "host"}
    /\ status_lock \in {"none", "ticker", "host"}
    /\ setting \in Settings
    /\ tpc \in TickerPcs
    /\ hpc \in HostPcs

\* The ticker loop never ends and update() is called again and again; every
\* sound comes to its end.
FairSpec ==
    /\ Spec
    /\ WF_vars(TickTryMin \/ TickTryStatus \/ TickBody \/ TickWake
               \/ (TickRelease /\ UNCHANGED ticks))
    /\ WF_vars(Host)
    /\ WF_vars(PlaybackEnds)

\* ---- the tick-counting specification: one click on start on an idle clock
\* while the ticker sleeps, then the ticker alone, each of its iterations
\* uncontended and counted when it ends.
InitTicks ==
    /\ countdown = 0
    /\ status = "Wait"
    /\ countdown_lock = "none"
    /\ status_lock = "none"
    /\ setting \in Settings
    /\ tpc = "sleep"
    /\ hpc = "btn_start"
    /\ ret = "voice_broadcast"
    /\ sound_handle = NoHandle
    /\ cue_requests = <<>>
    /\ ticks = 0

StartReturned == hpc = "btn_pause"

NextTicks ==
    \/ BtnStart /\ hpc' = "start"
    \/ StartTryMin \/ StartSetMin \/ StartTryStatus \/ StartSetStatus
    \/ StartReturned /\ ticks < MaxTicks /\ TickWake
    \/ StartReturned /\ TickTryMin
    \/ StartReturned /\ TickTryStatus
    \/ StartReturned /\ TickBody
    \/ StartReturned /\ TickRelease /\ ticks' = ticks + 1

SpecTicks == InitTicks /\ [][NextTicks]_vars

\* ---- the cue-dispatch specification: voice_broadcast called once on any
\* status and any countdown up to MaxRemaining, with the ticker anywhere in
\* its loop and any sound handle stored.
TickerHolds ==
    /\ countdown_lock = (IF tpc \in {"t_min", "t_both", "t_rel"} THEN "ticker" ELSE "none")
    /\ status_lock = (IF tpc = "t_both" THEN "ticker" ELSE "none")

InitVoice ==
    /\ countdown \in 0..MaxRemaining
    /\ status \in StatusValues
    /\ tpc \in TickerPcs
    /\ TickerHolds
    /\ setting = [run_secs |-> MaxSecs, rest_secs |-> 1, auto_next |-> FALSE]
    /\ hpc = "voice_broadcast"
    /\ ret = "voice_broadcast"
    /\ sound_handle \in {NoHandle, [cue |-> "60", state |-> "Playing"]}
    /\ cue_requests = <<>>
    /\ ticks = 0

NextVoice ==
    \/ VbTryStatus \/ VbTryMin \/ VbBody \/ VbRelease
    \/ TickTryMin \/ TickTryStatus \/ TickBody \/ TickWake
    \/ TickRelease /\ UNCHANGED ticks
    \/ PlaybackEnds

SpecVoice == InitVoice /\ [][NextVoice]_vars

\* ---------------------------------------------------------------- steps
\* A step of the GUI thread inside the given part of update().
HostStepIn(pcs) == hpc \in pcs /\ hpc' # hpc

\* A step of the ticker thread.
TickerStep == tpc' # tpc

ActivePhase == {"Running", "RestRunning"}

\* ---------------------------------------------------------------- claims
\* C1 as stated: whenever start() returns, status is Running and countdown
\* equals run_secs.
C1_StartAlwaysResets ==
    [][(hpc \in StartPcs /\ hpc' \notin StartPcs)
          => (status' = "Running" /\ countdown' = setting.run_secs)]_vars

\* C1 amended: start() writes run_secs into countdown exactly at the step where
\* it holds the countdown lock and Running into status exactly at the step
\* where it holds the status lock; it takes a lock only when the lock is free,
\* and a field whose lock it cannot take is left as it was.
C1_StartWritesUnderLock ==
    [][HostStepIn(StartPcs) =>
          /\ countdown' = (IF hpc = "start_min" THEN setting.run_secs ELSE countdown)
          /\ status' = (IF hpc = "start_status" THEN "Running" ELSE status)
          /\ (hpc = "start" => ((hpc' = "start_min") <=> (countdown_lock = "none")))
          /\ (hpc = "start_try_status"
                => ((hpc' = "start_status") <=> (status_lock = "none")))
          /\ (hpc = "start_min" => countdown_lock = "host")
          /\ (hpc = "start_status" => status_lock = "host")]_vars

\* C1 witness: a clicked start() has returned with both fields reset.
C1_Witness ==
    /\ hpc = "btn_pause" /\ ret = "btn_pause"
    /\ status = "Running" /\ countdown = setting.run_secs /\ countdown = MaxSecs
    /\ setting.rest_secs # MaxSecs

\* C2 as stated: once status is Rest, it eventually is RestRunning with
\* countdown = rest_secs, unless a start() is issued.
C2_RestLeadsToRestRunning ==
    (status = "Rest")
        ~> ((status = "RestRunning" /\ countdown = setting.rest_secs) \/ hpc \in StartPcs)

\* C2 amended: status leaves Rest only to RestRunning with countdown =
\* rest_secs (check_status holding both locks), to Wait (the ticker's
\* catch-all) or to Running (start()).
C2_RestLeavesTo ==
    [][(status = "Rest" /\ status' # "Rest") =>
          \/ /\ status' = "RestRunning" /\ countdown' = setting.rest_secs
             /\ hpc = "cs_set" /\ hpc' = "cs_auto"
          \/ status' = "Wait" /\ tpc = "t_both" /\ TickerStep /\ countdown = 0
          \/ status' = "Running" /\ hpc = "start_status"]_vars

\* C2 witness: check_status has just moved Rest to RestRunning with a fresh
\* rest_secs.
C2_Witness ==
    /\ hpc = "cs_auto" /\ status_lock = "host"
    /\ status = "RestRunning" /\ countdown = setting.rest_secs /\ countdown = MaxSecs
    /\ setting.run_secs # MaxSecs

\* C3 as stated: with auto_next, from (RestWait, 0) the state moves on only to
\* Running, whatever the ticker does before check_status runs.
C3_RestWaitOnlyToRunning ==
    [][(status = "RestWait" /\ countdown = 0 /\ setting.auto_next /\ status' # status)
          => status' = "Running"]_vars

\* C3 amended: check_status calls start() exactly when it holds the status
\* lock on status = RestWait with auto_next set; that start() writes run_secs
\* into countdown if it can take the countdown lock, nothing changes countdown
\* from there until it returns, and it writes Running into status if it can
\* take the status lock; the only other way out of RestWait is the ticker's
\* catch-all, to Wait.
C3_AutoNextStarts ==
    [][/\ (HostStepIn({"cs_auto"})
             => ((hpc' = "start") <=> (status = "RestWait" /\ setting.auto_next)))
       /\ (HostStepIn({"start_min"}) /\ ret = "voice_broadcast"
             => countdown' = setting.run_secs)
       /\ (hpc \in {"start_try_status", "start_status"} /\ ret = "voice_broadcast"
             => countdown' = countdown /\ status \in {"RestWait", "Wait"})
       /\ (HostStepIn({"start_status"}) /\ ret = "voice_broadcast"
             => status' = "Running")
       /\ (status = "RestWait" /\ status' # status
             => \/ status' = "Running" /\ hpc = "start_status"
                \/ status' = "Wait" /\ TickerStep /\ tpc = "t_both")]_vars

\* C3 witness: the start() called by check_status has returned with the work
\* phase reset.
C3_Witness ==
    /\ hpc = "voice_broadcast" /\ ret = "voice_broadcast"
    /\ status = "Running" /\ countdown = setting.run_secs /\ countdown = MaxSecs
    /\ setting.auto_next /\ tpc = "sleep" /\ setting.rest_secs = 0

\* C4 as stated: after start() on run_secs = N, N uncontended ticker iterations
\* leave the state at (Rest, 0).
C4_RestAfterNTicks ==
    (StartReturned /\ tpc = "sleep" /\ ticks = setting.run_secs)
        => (status = "Rest" /\ countdown = 0)

\* C4 amended: after start() on run_secs = N, k <= N uncontended ticker
\* iterations leave the state at (Running, N - k), and exactly N + 1 leave it at
\* (Rest, 0).
C4_RestAfterNPlusOneTicks ==
    (StartReturned /\ tpc = "sleep") =>
        /\ (ticks <= setting.run_secs
              => status = "Running" /\ countdown = setting.run_secs - ticks)
        /\ (ticks = setting.run_secs + 1 => status = "Rest" /\ countdown = 0)

\* C4 witness: the iteration after the last decrement has ended.
C4_Witness ==
    /\ StartReturned /\ tpc = "sleep"
    /\ setting.run_secs = MaxSecs /\ ticks = MaxSecs + 1 /\ status = "Rest"

\* C5: check_status writes rest_secs and RestRunning with both locks held from
\* before the first write until after the second, so status RestRunning is
\* never visible before countdown has been reset; when status is Rest and the
\* countdown lock is taken, check_status changes neither field.
C5_RestToRestRunningAtomic ==
    [][/\ (hpc \in {"cs_min", "cs_set"}
             => countdown_lock = "host" /\ status_lock = "host")
       /\ (HostStepIn({"cs_min"}) => countdown' = setting.rest_secs /\ status' = "Rest")
       /\ (status' = "RestRunning" /\ status # "RestRunning"
             => /\ hpc = "cs_set" /\ status = "Rest"
                /\ countdown = setting.rest_secs /\ countdown' = countdown)
       /\ (HostStepIn({"cs_status"}) /\ status = "Rest"
             => IF countdown_lock = "none"
                THEN hpc' = "cs_min"
                ELSE hpc' = "cs_auto" /\ status' = "Rest" /\ countdown' = countdown)
       /\ (HostStepIn({"cs_status"}) /\ status # "Rest" => hpc' = "cs_auto")]_vars

\* C5 witness: check_status found Rest but the ticker holds countdown.
C5_Witness ==
    /\ hpc = "cs_auto" /\ status_lock = "host" /\ status = "Rest"
    /\ countdown_lock = "ticker"

\* C6: pause moves (Running, n) to (Stop, n); while status is Stop and
\* countdown > 0 no ticker step changes either field; resume moves (Stop, n) to
\* (Running, n), and the ticker's next full iteration on Running takes n to
\* n - 1.
C6_PauseResumeKeepCounter ==
    [][/\ (status = "Running" /\ status' = "Stop"
             => hpc = "pause_locked" /\ countdown' = countdown)
       /\ (HostStepIn({"pause_locked"})
             => /\ countdown' = countdown
                /\ (status = "Stop" => status' \in {"Stop", "Running"})
                /\ (status \notin {"Stop", "Running"} => status' = status))
       /\ (TickerStep /\ status = "Stop" /\ countdown > 0
             => status' = "Stop" /\ countdown' = countdown)
       /\ (TickerStep /\ tpc = "t_both" /\ status = "Running" /\ countdown > 0
             => status' = "Running" /\ countdown' = countdown - 1)]_vars

\* C6 witness: the ticker has run a full iteration on a paused, non-empty
\* counter.
C6_Witness ==
    /\ status = "Stop" /\ countdown > 0 /\ countdown < setting.run_secs
    /\ tpc = "t_rel" /\ hpc = "check_status"

\* C7: while status is RestWait and auto_next is off, no step of check_status
\* (the start() it calls included) changes status or countdown.
C7_CheckStatusIdempotent ==
    [][((HostStepIn(CheckStatusPcs) \/ (HostStepIn(StartPcs) /\ ret = "voice_broadcast"))
          /\ status = "RestWait" /\ ~setting.auto_next)
          => (status' = status /\ countdown' = countdown)]_vars

\* C7 witness: check_status holds the status lock on RestWait with auto_next
\* off.
C7_Witness ==
    /\ hpc = "cs_auto" /\ status_lock = "host" /\ status = "RestWait"
    /\ ~setting.auto_next /\ countdown = 0 /\ setting.run_secs > 0

\* C8 as stated: countdown becomes smaller only in a ticker step with status
\* Running or RestRunning.
C8_OnlyTickerLowers ==
    [][countdown' < countdown => (TickerStep /\ status \in ActivePhase)]_vars

\* C8 amended: countdown becomes smaller only by the ticker's decrement by one
\* in an active phase, or by a reset: start() writing run_secs or check_status
\* writing rest_secs; pause and resume never change it.
C8_LoweredByTickerOrReset ==
    [][countdown' < countdown =>
          \/ /\ TickerStep /\ tpc = "t_both" /\ status \in ActivePhase
             /\ countdown' = countdown - 1
          \/ HostStepIn({"start_min"}) /\ countdown' = setting.run_secs
          \/ HostStepIn({"cs_min"}) /\ countdown' = setting.rest_secs]_vars

\* C8 witness: start() has lowered a running counter to a smaller run_secs.
C8_Witness ==
    /\ hpc = "start_try_status" /\ ret = "btn_pause" /\ status = "RestRunning"
    /\ countdown = setting.run_secs /\ setting.run_secs < setting.rest_secs
    /\ tpc = "sleep"

\* C9: countdown is never negative, and the ticker is at its decrement only
\* while it holds both locks.
C9_NeverNegative ==
    /\ countdown >= 0
    /\ (tpc = "t_both" => countdown_lock = "ticker" /\ status_lock = "ticker")

\* C9 witness: the ticker holds both locks on an active phase whose counter is 0.
C9_Witness ==
    /\ tpc = "t_both" /\ countdown = 0 /\ status \in ActivePhase
    /\ hpc \in StartPcs

\* The cue C10 binds to a status and a countdown value.
C10_Cue(st, sec) ==
    IF st = "Running" /\ sec \in {90, 60, 30, 10, 5, 0}
    THEN <<IF sec = 90 THEN "90" ELSE IF sec = 60 THEN "60" ELSE IF sec = 30 THEN "30"
           ELSE IF sec = 10 THEN "10" ELSE IF sec = 5 THEN "05" ELSE "rest">>
    ELSE IF st = "RestRunning" /\ sec = 0 THEN <<"next">>
    ELSE <<>>

\* C10: voice_broadcast reaches its body only with both locks taken; there it
\* requests the cue bound to (status, countdown) and nothing else, at most one
\* cue; when a lock is taken it requests nothing.
C10_CueRequests ==
    [][HostStepIn(VoicePcs) =>
          /\ (hpc = "voice_broadcast"
                => /\ cue_requests' = <<>>
                   /\ ((hpc' = "vb_status") <=> (status_lock = "none")))
          /\ (hpc = "vb_status"
                => /\ cue_requests' = <<>>
                   /\ ((hpc' = "vb_both") <=> (countdown_lock = "none")))
          /\ (hpc = "vb_both"
                => /\ countdown_lock = "host" /\ status_lock = "host"
                   /\ cue_requests' = C10_Cue(status, countdown))
          /\ (hpc = "vb_rel" => cue_requests' = cue_requests)
          /\ Len(cue_requests') <= 1]_vars

\* C10 witness: the cue of 60 has been requested on (Running, 60).
C10_Witness ==
    /\ hpc = "vb_rel" /\ status = "Running" /\ countdown = 60
    /\ cue_requests = <<"60">>

\* C11: a voice_broadcast body leaves a Playing handle exactly as it was; when
\* it changes the handle, the handle was not Playing and becomes the requested
\* cue, Playing; otherwise (the cue is dropped or its file does not load) the
\* handle is unchanged; countdown and status are never touched, and the handle
\* changes in no other way than by a request or by the sound reaching its end.
C11_OneCueAtATime ==
    [][/\ (HostStepIn({"vb_both"})
             => /\ countdown' = countdown /\ status' = status
                /\ (sound_handle.state = "Playing" => sound_handle' = sound_handle)
                /\ (sound_handle' # sound_handle
                      => /\ cue_requests' # <<>>
                         /\ sound_handle' = [cue |-> cue_requests'[1],
                                             state |-> "Playing"]))
       /\ (sound_handle' # sound_handle /\ ~HostStepIn({"vb_both"})
             => /\ sound_handle.state = "Playing"
                /\ sound_handle' = [cue |-> sound_handle.cue, state |-> "Stopped"]
                /\ countdown' = countdown /\ status' = status)]_vars

\* C11 witness: the cue of 30 was requested while the cue of 60 was playing,
\* and the cue of 60 is still the one stored and playing.
C11_Witness ==
    /\ hpc = "vb_rel" /\ cue_requests = <<"30">>
    /\ sound_handle = [cue |-> "60", state |-> "Playing"]

\* ---- the threshold specification: the work phase stands at (Running, 60),
\* no cue has been played yet, and update() is called frame after frame with
\* no click and no edit, while the ticker and the audio thread run freely.
Cue60At == 60

Init60 ==
    /\ countdown = Cue60At
    /\ status = "Running"
    /\ countdown_lock = "none"
    /\ status_lock = "none"
    /\ setting = [run_secs |-> MaxSecs, rest_secs |-> 1, auto_next |-> FALSE]
    /\ tpc = "sleep"
    /\ hpc = "check_status"
    /\ ret = "voice_broadcast"
    /\ sound_handle = NoHandle
    /\ cue_requests = <<>>
    /\ ticks = 0

Next60 ==
    \/ CsTryStatus \/ CsTryMin \/ CsSetMin \/ CsSetStatus \/ CsAuto
    \/ VbTryStatus \/ VbTryMin \/ VbBody \/ VbRelease
    \/ UiAuto /\ setting' = setting
    \/ BtnStart /\ hpc' = "btn_pause"
    \/ BtnPauseTry
    \/ BtnPause /\ status' = status
    \/ Edit /\ setting' = setting
    \/ DisplayTryMin \/ DisplayTryStatus \/ DisplayColour \/ DisplayRelease
    \/ RepaintTry \/ RepaintRelease
    \/ TickTryMin \/ TickTryStatus \/ TickBody \/ TickWake
    \/ TickRelease /\ UNCHANGED ticks
    \/ PlaybackEnds

Spec60 == Init60 /\ [][Next60]_vars

\* C12 as stated: while the state stays at (Running, 60) the cue of 60 is
\* requested once, whether or not it finishes playing: a voice_broadcast that
\* finds (Running, 60) with the cue of 60 already started during this stay
\* does not start it again.
C12_Cue60RequestedOnce ==
    [][(HostStepIn({"vb_both"}) /\ status = "Running" /\ countdown = Cue60At
          /\ sound_handle.cue = "60")
          => sound_handle' = sound_handle]_vars
\* ---------------------------------------------------------------- guards and progress
\* One step of the ticker thread as Spec takes it.
TickerNext ==
    TickTryMin \/ TickTryStatus \/ TickBody \/ TickWake \/ (TickRelease /\ UNCHANGED ticks)

\* The positions at which a guard of countdown is alive in the ticker
\* (lines 139-157) and in the GUI thread (lines 163-165, 175-178, 190-218,
\* 294-304).
TickerHasCountdown == tpc \in {"t_min", "t_both", "t_rel"}

HostHasCountdown ==
    hpc \in {"start_min", "cs_min", "cs_set", "vb_both",
             "display_min", "display_both", "display_rel"}

\* The positions at which a guard of status is alive in the ticker (lines
\* 141-145, 147-155) and in the GUI thread (lines 166-168, 173-182, 189-219,
\* 244-254, 296-302, 309-313).
TickerHasStatus == tpc = "t_both"

HostHasStatus ==
    hpc \in {"start_status", "cs_status", "cs_min", "cs_set", "cs_auto",
             "vb_status", "vb_both", "vb_rel", "pause_locked", "display_both",
             "repaint_locked"}

\* The place of a position in one call of update(); start() sits where it is
\* called from.
HostRank(pc, r) ==
    CASE pc = "check_status" -> 1 [] pc = "cs_status" -> 2 [] pc = "cs_min" -> 3
      [] pc = "cs_set" -> 4 [] pc = "cs_auto" -> 5
      [] pc = "start" -> IF r = "voice_broadcast" THEN 6 ELSE 16
      [] pc = "start_min" -> IF r = "voice_broadcast" THEN 7 ELSE 17
      [] pc = "start_try_status" -> IF r = "voice_broadcast" THEN 8 ELSE 18
      [] pc = "start_status" -> IF r = "voice_broadcast" THEN 9 ELSE 19
      [] pc = "voice_broadcast" -> 10 [] pc = "vb_status" -> 11 [] pc = "vb_both" -> 12
      [] pc = "vb_rel" -> 13 [] pc = "ui_auto" -> 14 [] pc = "btn_start" -> 15
      [] pc = "btn_pause" -> 20 [] pc = "pause_locked" -> 21 [] pc = "edit" -> 22
      [] pc = "display" -> 23 [] pc = "display_min" -> 24 [] pc = "display_both" -> 25
      [] pc = "display_rel" -> 26 [] pc = "repaint" -> 27 [] pc = "repaint_locked" -> 28

\* The place of a position in one iteration of the ticker loop.
TickerRank(pc) ==
    CASE pc = "loop" -> 1 [] pc = "t_min" -> 2 [] pc = "t_both" -> 3
      [] pc = "t_rel" -> 4 [] pc = "sleep" -> 5

\* C13: in every state both threads have a step to take (nobody waits for a
\* lock); each lock is held exactly at the positions where a guard of it is
\* alive, so every operation has released what it took when it ends; and every
\* step moves its thread forward in its frame or iteration, so an operation
\* ends after a bounded number of its own steps.
C13_NoWaitingNoDeadlock ==
    /\ [](/\ ENABLED Host
          /\ ENABLED TickerNext
          /\ countdown_lock = (IF TickerHasCountdown THEN "ticker"
                               ELSE IF HostHasCountdown THEN "host" ELSE "none")
          /\ status_lock = (IF TickerHasStatus THEN "ticker"
                            ELSE IF HostHasStatus THEN "host" ELSE "none")
          /\ ~(TickerHasCountdown /\ HostHasCountdown)
          /\ ~(TickerHasStatus /\ HostHasStatus))
    /\ [][/\ (hpc' # hpc
                => HostRank(hpc', ret') > HostRank(hpc, ret) \/ hpc' = "check_status")
          /\ (tpc' # tpc => TickerRank(tpc') > TickerRank(tpc) \/ tpc' = "loop")]_vars

\* C13 witness: the two threads hold one lock each and each is about to try
\* the lock the other holds.
C13_Witness ==
    /\ tpc = "t_min" /\ hpc = "cs_status" /\ status = "Rest"
    /\ countdown_lock = "ticker" /\ status_lock = "host"

\* ---------------------------------------------------------------- the status machine as a table
\* The (status, remaining) a trigger produces when every try_lock of its
\* operation succeeds.
C14_Table(trigger, st, min, s) ==
    CASE trigger = "tick" ->
           IF min > 0
           THEN (IF st \in ActivePhase THEN <<st, min - 1>> ELSE <<st, min>>)
           ELSE IF st = "Running" THEN <<"Rest", min>>
           ELSE IF st = "RestRunning" THEN <<"RestWait", min>>
           ELSE <<"Wait", min>>
      [] trigger = "start" -> <<"Running", s.run_secs>>
      [] trigger = "pause" -> IF st = "Running" THEN <<"Stop", min>> ELSE <<st, min>>
      [] trigger = "resume" -> IF st = "Stop" THEN <<"Running", min>> ELSE <<st, min>>
      [] trigger = "check_status" ->
           IF st = "Rest" THEN <<"RestRunning", s.rest_secs>> ELSE <<st, min>>

\* C14 as stated: the result of a trigger is a function of (status, remaining,
\* trigger, settings) alone, so it is the result of the uncontended run: the
\* step that ends a ticker iteration, either half of start(), check_status()
\* or a pause / resume leaves what the table gives for the state it found.
C14_TableDecides ==
    [][/\ (TickerStep /\ tpc \in {"loop", "t_min", "t_both"} /\ tpc' \in {"sleep", "t_rel"}
             => <<status', countdown'>> = C14_Table("tick", status, countdown, setting))
       /\ (HostStepIn({"check_status", "cs_status", "cs_set"})
             /\ hpc' \in {"voice_broadcast", "cs_auto"}
             => <<status', countdown'>> = C14_Table("check_status", status, countdown, setting))
       /\ (HostStepIn({"start", "start_min"}) /\ hpc' = "start_try_status"
             => countdown' = C14_Table("start", status, countdown, setting)[2])
       /\ (HostStepIn({"start_try_status", "start_status"}) /\ hpc' \notin StartPcs
             => status' = C14_Table("start", status, countdown, setting)[1])
       /\ (HostStepIn({"pause_locked"})
             => <<status', countdown'>> \in
                  {<<status, countdown>>,
                   C14_Table("pause", status, countdown, setting),
                   C14_Table("resume", status, countdown, setting)})]_vars

\* C14 amended: the result of a trigger is a function of (status, remaining,
\* trigger, settings) and of which try_lock of the operation succeeded.  A step
\* taken with the locks held writes what the table gives; a step of an
\* operation that missed a lock, and every other step, leaves both fields.
C14_TableDecidesUnderLocks ==
    [][/\ (TickerStep /\ tpc = "t_both"
             => <<status', countdown'>> = C14_Table("tick", status, countdown, setting))
       /\ (TickerStep /\ tpc # "t_both" => status' = status /\ countdown' = countdown)
       /\ (HostStepIn({"cs_min"})
             => /\ status = "Rest" /\ status' = status
                /\ countdown' = C14_Table("check_status", status, countdown, setting)[2])
       /\ (HostStepIn({"cs_set"})
             => /\ status = "Rest"
                /\ <<status', countdown'>>
                     = C14_Table("check_status", status, countdown, setting))
       /\ (HostStepIn({"start_min"})
             => /\ countdown' = C14_Table("start", status, countdown, setting)[2]
                /\ status' = status)
       /\ (HostStepIn({"start_status"})
             => /\ status' = C14_Table("start", status, countdown, setting)[1]
                /\ countdown' = countdown)
       /\ (HostStepIn({"pause_locked"})
             => <<status', countdown'>> \in
                  {<<status, countdown>>,
                   C14_Table("pause", status, countdown, setting),
                   C14_Table("resume", status, countdown, setting)})
       /\ (HostStepIn(HostPcs \ {"cs_min", "cs_set", "start_min", "start_status",
                                  "pause_locked"})
             => status' = status /\ countdown' = countdown)
       /\ (hpc' = hpc /\ tpc' = tpc => status' = status /\ countdown' = countdown)]_vars

\* C14 witness: a ticker iteration found Running with time left, missed the
\* status lock (the host holds it since before start() returned) and is about
\* to end without having decremented.
C14_Witness ==
    /\ tpc = "t_rel" /\ status = "Running" /\ countdown = MaxSecs
    /\ setting.run_secs = MaxSecs /\ status_lock = "host" /\ hpc = "start_status"

\* ---------------------------------------------------------------- expiry
\* C15 as stated: with remaining 0 in an active phase, the step that decides
\* the next ticker iteration (a missed lock or the body) changes status to
\* Rest / RestWait and leaves remaining at 0.
C15_NextTickExpires ==
    [][(TickerStep /\ tpc \in {"loop", "t_min", "t_both"} /\ tpc' \in {"sleep", "t_rel"}
          /\ countdown = 0 /\ status \in ActivePhase)
          => /\ status' = (IF status = "Running" THEN "Rest" ELSE "RestWait")
             /\ countdown' = 0]_vars

\* C15 amended: with remaining 0 in an active phase, no ticker step
\* decrements; the iteration that holds both locks changes Running to Rest and
\* RestRunning to RestWait, and an iteration that missed a lock leaves status.
C15_NextUncontendedTickExpires ==
    [][(TickerStep /\ countdown = 0 /\ status \in ActivePhase)
          => /\ countdown' = 0
             /\ status' = (IF tpc # "t_both" THEN status
                           ELSE IF status = "Running" THEN "Rest" ELSE "RestWait")]_vars

\* C15 witness: the ticker has just taken a rest phase that ran out to RestWait
\* and still holds the countdown lock.
C15_Witness ==
    /\ tpc = "t_rel" /\ status = "RestWait" /\ countdown = 0
    /\ countdown_lock = "ticker" /\ status_lock = "none" /\ hpc = "check_status"

\* ---------------------------------------------------------------- lost ticks
\* C16: an iteration that finds the countdown lock taken goes straight to its
\* sleep, touching neither field nor the status lock; one that holds countdown
\* and finds the status lock taken goes to the release, changing neither
\* field; and a ticker step lowers remaining only in the body, by exactly 1,
\* so a lost tick is never made up.
C16_ContendedTickIsLost ==
    [][/\ (TickerStep /\ tpc = "loop" /\ countdown_lock # "none"
             => /\ tpc' = "sleep"
                /\ UNCHANGED <<countdown, status, countdown_lock, status_lock>>)
       /\ (TickerStep /\ tpc = "t_min" /\ status_lock # "none"
             => /\ tpc' = "t_rel"
                /\ UNCHANGED <<countdown, status, countdown_lock, status_lock>>)
       /\ (TickerStep /\ countdown' # countdown
             => tpc = "t_both" /\ tpc' = "t_rel" /\ countdown' = countdown - 1)
       /\ (TickerStep /\ status' # status => tpc = "t_both" /\ tpc' = "t_rel")]_vars

\* C16 witness: the ticker holds countdown in a running phase with time left
\* while the GUI thread holds status for the pause button.
C16_Witness ==
    /\ tpc = "t_min" /\ countdown_lock = "ticker" /\ status_lock = "host"
    /\ hpc = "pause_locked" /\ status = "Running" /\ countdown = 1

\* ---------------------------------------------------------------- the catch-all
\* C17: the body of a ticker iteration that holds both locks with remaining 0
\* and a status other than Running and RestRunning writes Wait and leaves
\* remaining at 0; and no ticker step taken in (Wait, 0) changes either field.
C17_CatchAllToWait ==
    [][/\ (TickerStep /\ tpc = "t_both" /\ countdown = 0 /\ status \notin ActivePhase
             => status' = "Wait" /\ countdown' = 0)
       /\ (TickerStep /\ status = "Wait" /\ countdown = 0
             => status' = "Wait" /\ countdown' = 0)]_vars

\* C17 witness: the ticker holds both locks over a paused clock that has no
\* time left.
C17_Witness ==
    /\ tpc = "t_both" /\ status = "Stop" /\ countdown = 0
    /\ countdown_lock = "ticker" /\ status_lock = "ticker"

\* ---------------------------------------------------------------- both locks
C18_BothHeldBy(actor) == countdown_lock = actor /\ status_lock = actor

\* C18 as stated: in every reachable state each thread holds at most one of
\* the two locks.
C18_NeverBothLocks == ~C18_BothHeldBy("ticker") /\ ~C18_BothHeldBy("host")

\* C18 amended: a thread holds both locks exactly where one guard is taken
\* inside the scope of the other: the body of the ticker iteration, the rest
\* reset of check_status, the body of voice_broadcast and the display.  start(),
\* the pause / resume button and the repaint test hold at most one lock.
C18_BothLocksOnlyNested ==
    /\ C18_BothHeldBy("ticker") <=> tpc = "t_both"
    /\ C18_BothHeldBy("host") <=> hpc \in {"cs_min", "cs_set", "vb_both", "display_both"}
    /\ hpc \in StartPcs \cup {"btn_pause", "pause_locked", "repaint", "repaint_locked"}
         => ~C18_BothHeldBy("host")

\* C18 witness: check_status holds status and countdown together, between its
\* two writes.
C18_Witness ==
    /\ hpc = "cs_set" /\ status = "Rest" /\ countdown = setting.rest_secs
    /\ countdown_lock = "host" /\ status_lock = "host" /\ setting.rest_secs = MaxSecs

\* ---------------------------------------------------------------- torn states
\* C19: whenever the GUI thread stands between two operations of update() and
\* the ticker stands between two iterations, a status of Wait, Rest or
\* RestWait comes with remaining 0.
C19_IdleMeansEmpty ==
    (/\ hpc \in {"check_status", "voice_broadcast", "ui_auto", "btn_start", "btn_pause",
                 "edit", "display", "repaint"}
     /\ tpc \in {"sleep", "loop"})
       => (status \in {"Wait", "Rest", "RestWait"} => countdown = 0)

\* ---------------------------------------------------------------- pause / resume
\* C20: the pause / resume step runs with the status lock held by the GUI
\* thread; it changes status only from Running to Stop or from Stop to
\* Running, judged on the status it overwrites, and never changes remaining;
\* between taking the lock and that step no other step changes status; so a
\* Rest, RestWait or Wait written by the ticker is left alone.
C20_PauseResumeCheckAndSet ==
    [][/\ (HostStepIn({"pause_locked"})
             => /\ status_lock = "host" /\ status_lock' = "none"
                /\ countdown' = countdown
                /\ (status' # status
                      => \/ status = "Running" /\ status' = "Stop"
                         \/ status = "Stop" /\ status' = "Running"))
       /\ (hpc = "pause_locked" /\ hpc' = hpc => status' = status)
       /\ (HostStepIn({"btn_pause"})
             => /\ status' = status /\ countdown' = countdown
                /\ (hpc' = "pause_locked") = (status_lock = "none"))]_vars

\* C20 witness: the ticker has just written Rest and still holds countdown
\* while the GUI thread holds status for the pause button.
C20_Witness ==
    /\ hpc = "pause_locked" /\ status_lock = "host" /\ status = "Rest"
    /\ tpc = "t_rel" /\ countdown_lock = "ticker" /\ countdown = 0

====
